---- MODULE Spec2Model ----
(***************************************************************************)
(* State-machine model of the two programs of the repository:              *)
(*                                                                         *)
(*   make_files.py            the day generator: timeline, state codes,    *)
(*                            production counters, sensor, CSV rows        *)
(*   simple_mqtt_replayer.py  the timed replay of a CSV log over MQTT      *)
(*                                                                         *)
(* Each program has its own specification (GenSpec, ReplaySpec); the       *)
(* variables of the other program keep their initial values.  ArgsSpec is  *)
(* the generator started from any command line that argparse accepts.      *)
(*                                                                         *)
(* Representation.                                                         *)
(*  - A datetime of the generated day is the number of seconds after t0    *)
(*    (local midnight).                                                    *)
(*  - ideal_ct_s and the two float accumulators hold integer-valued floats *)
(*    (seconds); sums and differences of such values are exact in IEEE     *)
(*    doubles, so integer arithmetic is what the code computes.            *)
(*  - A float that is a quotient (run_sec_accum / 60.0, dt / speed) is the *)
(*    pair <<numerator, denominator>>, compared by cross-multiplication.   *)
(*  - random.random() yields hundredths (0..99); reject_rate is in         *)
(*    hundredths as well.  The generator of the random module is a         *)
(*    deterministic state machine: a state, a value read from it, a next   *)
(*    state.  The state that random.seed(7) installs ranges over all       *)
(*    generator states, so nothing depends on particular drawn values.     *)
(*  - args.speed is in units of 1/SpeedDen.                                *)
(*  - Python's None is the empty sequence <<>>; a present value x is <<x>>.*)
(***************************************************************************)
EXTENDS Integers, Sequences, FiniteSets, TLC

VARIABLES
    \* ---- make_files.py, main() ----
    gpc,                \* position in main(): parse, build, base, planned,
                        \* fault, accum, cycle, sensor, emit, done; error
                        \* when main() ended with an exception
    date_ok,            \* args.date is a YYYY-MM-DD calendar date
    interval,           \* args.interval_sec
    ideal_ct_s,         \* args.ideal_ct_s
    reject_rate,        \* args.reject_rate, in hundredths
    planned_windows,    \* list of (a, b)
    rare_faults,        \* list of (start_m, dur_m)
    rng,                \* state of the random module's generator
    t,                  \* loop variable of the timestamp loop
    ts_list,
    base_code,          \* history: the value line 85 appended for each instant
    state_code,
    i,                  \* index of the loop in progress (1-based)
    pt, pg, run_sec_accum, accum_cycle,
    parts_total, parts_good, run_minutes_today,
    motor_current,      \* in thousandths of an ampere
    out_rows,           \* rows written by add_row, in order
    \* ---- simple_mqtt_replayer.py, main() ----
    rpc,                \* position of the main thread: connect, loop_start,
                        \* open, row, sleep, publish, wait, loop_stop,
                        \* disconnect, done
    csv,                \* the rows of args.csv: sequence of ts_iso fields
    loop,               \* args.loop
    speed,              \* args.speed, in units of 1/SpeedDen
    idx,                \* number of rows the reader has yielded in this pass
    prev,               \* None or <<seconds>>
    cur_t,              \* t of the row being processed: None or <<seconds>>
    sleeping,           \* duration of the time.sleep in progress, else None
    connects,           \* number of client.connect() calls made
    disconnects,        \* number of client.disconnect() calls made
    net_thread,         \* the network loop thread is running
    issued,             \* history: client.publish() calls, in order
    inflight,           \* messages handed to the client and not yet sent
    delivered,          \* history: messages the network thread has sent
    sig,                \* the KeyboardInterrupt: where it was raised
    exc,                \* exception propagating through the finally block
    outcome             \* how main() ended

GenVars == <<gpc, date_ok, interval, ideal_ct_s, reject_rate, planned_windows,
             rare_faults, rng, t, ts_list, base_code, state_code, i, pt, pg,
             run_sec_accum, accum_cycle, parts_total, parts_good,
             run_minutes_today, motor_current, out_rows>>

RepVars == <<rpc, csv, loop, speed, idx, prev, cur_t, sleeping, connects,
             disconnects, net_thread, issued, inflight, delivered, sig, exc,
             outcome>>

vars == <<GenVars, RepVars>>

None == <<>>

(***************************************************************************)
(* Rationals as <<numerator, denominator>> with a positive denominator.    *)
(***************************************************************************)
RatLeq(a, b) == a[1] * b[2] <= b[1] * a[2]
RatLt(a, b) == a[1] * b[2] < b[1] * a[2]
RatEq(a, b) == a[1] * b[2] = b[1] * a[2]

(***************************************************************************)
(*                        make_files.py                                    *)
(***************************************************************************)

\* t0 and t1 of the day, in seconds after t0 (t1 is 23:59:50).
T0 == 0
T1 == 86390

\* The configurations the generator is run on.  The sampling intervals are
\* long, so that a day has few instants; they are chosen so that instants
\* fall on the first minute of a window, inside a window, and on the minute
\* that ends a window (mm = 615, 618, 780, 800, 810, 1180, 1200).
Intervals == {12300, 17700, 18540, 23400, 24000, 36930, 48600}
CycleTimes == {7000, 12300, 30000}
RejectRates == {0, 2, 50, 100}

\* The window lists.  The first pair is the one main() hard-codes.  The
\* second keeps the planned windows and moves the faults to 13:10-13:30,
\* inside the first planned window, and 19:50-20:00, ending where the
\* second planned window starts: the hard-coded lists never overlap, and
\* the order of the two override loops shows only when they do.
WindowConfigs ==
    { [planned |-> << <<13*60, 13*60+30>>, <<20*60, 20*60+15>> >>,
       faults  |-> << <<10*60+15, 3>>, <<19*60+40, 4>> >>],
      [planned |-> << <<13*60, 13*60+30>>, <<20*60, 20*60+15>> >>,
       faults  |-> << <<13*60+10, 20>>, <<19*60+50, 10>> >>] }

\* Every command line that build_args() accepts gives a run: --date is any
\* string, --interval-sec any int, --ideal-ct-s and --reject-rate any
\* float.  GenInit draws from the values above; ArgsInit adds a date that is
\* not a calendar date, zero and negative intervals, intervals that divide
\* the day (28800), that have a multiple between 23:59:50 and midnight
\* (43197, 86395) and that exceed the day (90000), a zero cycle time, and
\* reject rates below 0 and above 1.
ArgIntervals == {-12300, 0, 12300, 24000, 28800, 43197, 86395, 90000}
ArgCycleTimes == {0, 12300}
ArgRejectRates == {-50, 0, 50, 150}

\* How far the model follows a loop that the code never leaves.
MaxInstants == 9
MaxParts == 6

\* The random module: generator states, the value random.random() reads
\* (hundredths) and the state it leaves behind.
RngStates == 0..15
RandomNext(r) == (5 * r + 3) % 16
RandomValue(r) == (r * 100) \div 16

\* random.gauss(0, sigma) as sigma times a standard deviate in -2..2.
GaussValue(r, sigma) == sigma * ((r % 5) - 2)

\* mm = t.hour * 60 + t.minute
MinuteOfDay(ts) == (((ts \div 3600) % 24) * 60) + ((ts \div 60) % 60)

\* Lines 79-84: the base profile, u the value random.random() returned.
BaseProfile(mm, u) ==
    IF 0 <= mm /\ mm < 360 THEN (IF u < 90 THEN 0 ELSE 3)
    ELSE IF 360 <= mm /\ mm < 1320 THEN (IF u < 90 THEN 2 ELSE 3)
    ELSE (IF u < 50 THEN 2 ELSE 3)

\* Faulty variant of PlannedHit (a < mm): C3 must fail with it.
PlannedHitLate(mm) ==
    \E k \in 1..Len(planned_windows) :
        planned_windows[k][1] < mm /\ mm < planned_windows[k][2]
\* Lines 91-92: some planned window (a, b) has a <= mm < b.
PlannedHit(mm) ==
    \E k \in 1..Len(planned_windows) :
        planned_windows[k][1] <= mm /\ mm < planned_windows[k][2]

\* Faulty variant of FaultHit (start_m < mm): C2 must fail with it.
FaultHitLate(mm) ==
    \E k \in 1..Len(rare_faults) :
        rare_faults[k][1] < mm /\ mm < rare_faults[k][1] + rare_faults[k][2]
\* Lines 99-100: some fault (start_m, dur_m) has
\* start_m <= mm < start_m + dur_m.
FaultHit(mm) ==
    \E k \in 1..Len(rare_faults) :
        rare_faults[k][1] <= mm /\ mm < rare_faults[k][1] + rare_faults[k][2]

\* Line 103: running = [1 if s == 2 else 0 for s in state_code]
running == [k \in 1..Len(state_code) |-> IF state_code[k] = 2 THEN 1 ELSE 0]

\* Faulty variant of GoodAfter (a reject takes a good part away): C1 must
\* fail with it.
GoodAfterDrop(g, u) == IF u >= reject_rate THEN g + 1 ELSE g - 1
\* Line 122-123: pg after one completed part, u the value random.random()
\* returned.
GoodAfter(g, u) == IF u >= reject_rate THEN g + 1 ELSE g

\* Line 127: run_sec_accum / 60.0
RunMinutes(sec) == <<sec, 60>>

\* Lines 133-140: mean and sigma of the motor current, in thousandths.
MotorMean(s) == IF s = 2 THEN 10000 ELSE IF s = 3 THEN 1200
                ELSE IF s = 4 THEN 300 ELSE 200
MotorSigma(s) == IF s = 2 THEN 600 ELSE IF s = 3 THEN 200 ELSE 100

\* Lines 151-161: the row add_row writes.
Row(ts, object, metric, value, unit) ==
    [ts |-> ts, object |-> object, metric |-> metric, value |-> value,
     unit |-> unit]

\* Faulty variant of InstantRows (running is written before state_code):
\* C15 must fail with it.
InstantRowsSwapped(k) ==
    LET ts == ts_list[k]
    IN  << Row(ts, "state", "running", <<running[k]>>, None),
           Row(ts, "state", "state_code", <<state_code[k]>>, None),
           Row(ts, "counter", "parts_total", <<parts_total[k]>>, <<"count">>),
           Row(ts, "counter", "parts_good", <<parts_good[k]>>, <<"count">>),
           Row(ts, "kpi", "run_minutes_today", run_minutes_today[k],
               <<"min">>),
           Row(ts, "sensor", "motor_current_a", <<motor_current[k], 1000>>,
               <<"A">>) >>
\* Lines 168-173: the six rows of instant k.
InstantRows(k) ==
    LET ts == ts_list[k]
    IN  << Row(ts, "state", "state_code", <<state_code[k]>>, None),
           Row(ts, "state", "running", <<running[k]>>, None),
           Row(ts, "counter", "parts_total", <<parts_total[k]>>, <<"count">>),
           Row(ts, "counter", "parts_good", <<parts_good[k]>>, <<"count">>),
           Row(ts, "kpi", "run_minutes_today", run_minutes_today[k],
               <<"min">>),
           Row(ts, "sensor", "motor_current_a", <<motor_current[k], 1000>>,
               <<"A">>) >>

GenConfig ==
    <<date_ok, interval, ideal_ct_s, reject_rate, planned_windows,
      rare_faults>>

GenInit ==
    /\ gpc = "parse"
    /\ date_ok = TRUE
    /\ interval \in Intervals
    /\ ideal_ct_s \in CycleTimes
    /\ reject_rate \in RejectRates
    /\ \E w \in WindowConfigs :
          planned_windows = w.planned /\ rare_faults = w.faults
    /\ rng \in RngStates
    /\ t = T0
    /\ ts_list = <<>>
    /\ base_code = <<>>
    /\ state_code = <<>>
    /\ i = 1
    /\ pt = 0 /\ pg = 0 /\ run_sec_accum = 0 /\ accum_cycle = 0
    /\ parts_total = <<>> /\ parts_good = <<>> /\ run_minutes_today = <<>>
    /\ motor_current = <<>>
    /\ out_rows = <<>>
    \* the replayer does not run
    /\ rpc = "off"
    /\ csv = <<>> /\ loop = FALSE /\ speed = 0
    /\ idx = 0 /\ prev = None /\ cur_t = None /\ sleeping = None
    /\ connects = 0 /\ disconnects = 0 /\ net_thread = FALSE
    /\ issued = <<>> /\ inflight = <<>> /\ delivered = <<>>
    /\ sig = [at |-> "none", issued |-> 0]
    /\ exc = "none" /\ outcome = "none"

\* Lines 47-49: the date is split and converted, t0 and t1 are built.
\* int() or datetime() raises ValueError for anything but a calendar date,
\* and main() ends there.
ParseDate ==
    /\ gpc = "parse"
    /\ gpc' = IF date_ok THEN "build" ELSE "error"
    /\ UNCHANGED <<RepVars, GenConfig, rng, t, ts_list, base_code, state_code,
                   i, pt, pg, run_sec_accum, accum_cycle, parts_total,
                   parts_good, run_minutes_today, motor_current, out_rows>>

\* The generator started from any accepted command line; the window lists
\* are the ones main() hard-codes.
ArgsInit ==
    /\ gpc = "parse"
    /\ date_ok \in BOOLEAN
    /\ interval \in ArgIntervals
    /\ ideal_ct_s \in ArgCycleTimes
    /\ reject_rate \in ArgRejectRates
    /\ planned_windows = << <<13*60, 13*60+30>>, <<20*60, 20*60+15>> >>
    /\ rare_faults = << <<10*60+15, 3>>, <<19*60+40, 4>> >>
    /\ rng \in RngStates
    /\ t = T0
    /\ ts_list = <<>>
    /\ base_code = <<>>
    /\ state_code = <<>>
    /\ i = 1
    /\ pt = 0 /\ pg = 0 /\ run_sec_accum = 0 /\ accum_cycle = 0
    /\ parts_total = <<>> /\ parts_good = <<>> /\ run_minutes_today = <<>>
    /\ motor_current = <<>>
    /\ out_rows = <<>>
    \* the replayer does not run
    /\ rpc = "off"
    /\ csv = <<>> /\ loop = FALSE /\ speed = 0
    /\ idx = 0 /\ prev = None /\ cur_t = None /\ sleeping = None
    /\ connects = 0 /\ disconnects = 0 /\ net_thread = FALSE
    /\ issued = <<>> /\ inflight = <<>> /\ delivered = <<>>
    /\ sig = [at |-> "none", issued |-> 0]
    /\ exc = "none" /\ outcome = "none"

\* Faulty variant of BuildTimestamps (t is advanced before it is appended):
\* C13 must fail with it.
BuildTimestampsLate ==
    /\ gpc = "build"
    /\ IF t <= T1
         THEN /\ interval > 0 \/ Len(ts_list) < MaxInstants
              /\ ts_list' = Append(ts_list, t + interval)
              /\ t' = t + interval
              /\ UNCHANGED gpc
         ELSE /\ gpc' = "base"
              /\ UNCHANGED <<ts_list, t>>
    /\ UNCHANGED <<RepVars, GenConfig, rng, base_code, state_code, i, pt, pg,
                   run_sec_accum, accum_cycle, parts_total, parts_good,
                   run_minutes_today, motor_current, out_rows>>
\* Lines 64-70: one iteration of the timestamp loop, or its exit.  With
\* interval <= 0 the loop never exits; the model follows it for
\* MaxInstants iterations.
BuildTimestamps ==
    /\ gpc = "build"
    /\ IF t <= T1
         THEN /\ interval > 0 \/ Len(ts_list) < MaxInstants
              /\ ts_list' = Append(ts_list, t)
              /\ t' = t + interval
              /\ UNCHANGED gpc
         ELSE /\ gpc' = "base"
              /\ UNCHANGED <<ts_list, t>>
    /\ UNCHANGED <<RepVars, GenConfig, rng, base_code, state_code, i, pt, pg,
                   run_sec_accum, accum_cycle, parts_total, parts_good,
                   run_minutes_today, motor_current, out_rows>>

\* Lines 77-85: the base-profile draw of instant i, or the loop's exit.
BaseDraw ==
    /\ gpc = "base"
    /\ IF i <= Len(ts_list)
         THEN LET s == BaseProfile(MinuteOfDay(ts_list[i]), RandomValue(rng))
              IN  /\ state_code' = Append(state_code, s)
                  /\ base_code' = Append(base_code, s)
                  /\ rng' = RandomNext(rng)
                  /\ i' = i + 1
                  /\ UNCHANGED gpc
         ELSE /\ gpc' = "planned"
              /\ i' = 1
              /\ UNCHANGED <<state_code, base_code, rng>>
    /\ UNCHANGED <<RepVars, GenConfig, t, ts_list, pt, pg, run_sec_accum,
                   accum_cycle,
                   parts_total, parts_good, run_minutes_today, motor_current,
                   out_rows>>

\* Lines 89-93: the planned-window pass over instant i, or the loop's exit.
PlannedOverride ==
    /\ gpc = "planned"
    /\ IF i <= Len(ts_list)
         THEN /\ state_code' = IF PlannedHit(MinuteOfDay(ts_list[i]))
                                 THEN [state_code EXCEPT ![i] = 3]
                                 ELSE state_code
              /\ i' = i + 1
              /\ UNCHANGED gpc
         ELSE /\ gpc' = "fault"
              /\ i' = 1
              /\ UNCHANGED state_code
    /\ UNCHANGED <<RepVars, GenConfig, rng, t, ts_list, base_code, pt, pg,
                   run_sec_accum, accum_cycle, parts_total, parts_good,
                   run_minutes_today, motor_current, out_rows>>

\* Lines 97-101: the fault-window pass over instant i, or the loop's exit.
FaultOverride ==
    /\ gpc = "fault"
    /\ IF i <= Len(ts_list)
         THEN /\ state_code' = IF FaultHit(MinuteOfDay(ts_list[i]))
                                 THEN [state_code EXCEPT ![i] = 4]
                                 ELSE state_code
              /\ i' = i + 1
              /\ UNCHANGED gpc
         ELSE /\ gpc' = "accum"
              /\ i' = 1
              /\ UNCHANGED state_code
    /\ UNCHANGED <<RepVars, GenConfig, rng, t, ts_list, base_code, pt, pg,
                   run_sec_accum, accum_cycle, parts_total, parts_good,
                   run_minutes_today, motor_current, out_rows>>

\* Lines 125-127: the three appends that end the body of the counter loop.
AppendCounters(sec) ==
    /\ parts_total' = Append(parts_total, pt)
    /\ parts_good' = Append(parts_good, pg)
    /\ run_minutes_today' = Append(run_minutes_today, RunMinutes(sec))
    /\ i' = i + 1

\* Faulty variant of AccumStep (an instant that is not running drops the
\* partial cycle): C19 must fail with it.
AccumStepReset ==
    /\ gpc = "accum"
    /\ IF i <= Len(ts_list)
         THEN IF running[i] = 1
                THEN /\ run_sec_accum' = run_sec_accum + interval
                     /\ accum_cycle' = accum_cycle + interval
                     /\ gpc' = "cycle"
                     /\ UNCHANGED <<i, parts_total, parts_good,
                                    run_minutes_today>>
                ELSE /\ AppendCounters(run_sec_accum)
                     /\ accum_cycle' = 0
                     /\ UNCHANGED <<gpc, run_sec_accum>>
         ELSE /\ gpc' = "sensor"
              /\ i' = 1
              /\ UNCHANGED <<run_sec_accum, accum_cycle, parts_total,
                             parts_good, run_minutes_today>>
    /\ UNCHANGED <<RepVars, GenConfig, rng, t, ts_list, base_code,
                   state_code, pt, pg,
                   motor_current, out_rows>>
\* Faulty variant of AccumStep (no `if running[i]`): C4 must fail with it.
AccumAlways ==
    /\ gpc = "accum"
    /\ IF i <= Len(ts_list)
         THEN /\ run_sec_accum' = run_sec_accum + interval
              /\ accum_cycle' = accum_cycle + interval
              /\ gpc' = "cycle"
              /\ UNCHANGED <<i, parts_total, parts_good, run_minutes_today>>
         ELSE /\ gpc' = "sensor"
              /\ i' = 1
              /\ UNCHANGED <<run_sec_accum, accum_cycle, parts_total,
                             parts_good, run_minutes_today>>
    /\ UNCHANGED <<RepVars, GenConfig, rng, t, ts_list, base_code,
                   state_code, pt, pg,
                   motor_current, out_rows>>
\* Lines 115-118 (and 125-127 for an instant that is not running): the head
\* of the counter loop's body for instant i, or the loop's exit.
AccumStep ==
    /\ gpc = "accum"
    /\ IF i <= Len(ts_list)
         THEN IF running[i] = 1
                THEN /\ run_sec_accum' = run_sec_accum + interval
                     /\ accum_cycle' = accum_cycle + interval
                     /\ gpc' = "cycle"
                     /\ UNCHANGED <<i, parts_total, parts_good,
                                    run_minutes_today>>
                ELSE /\ AppendCounters(run_sec_accum)
                     /\ UNCHANGED <<gpc, run_sec_accum, accum_cycle>>
         ELSE /\ gpc' = "sensor"
              /\ i' = 1
              /\ UNCHANGED <<run_sec_accum, accum_cycle, parts_total,
                             parts_good, run_minutes_today>>
    /\ UNCHANGED <<RepVars, GenConfig, rng, t, ts_list, base_code,
                   state_code, pt, pg,
                   motor_current, out_rows>>

\* Faulty variant of CycleStep (while accum_cycle > ideal_ct_s): C14 must
\* fail with it.
CycleStepStrict ==
    /\ gpc = "cycle"
    /\ IF accum_cycle > ideal_ct_s
         THEN /\ ideal_ct_s > 0 \/ pt < MaxParts
              /\ accum_cycle' = accum_cycle - ideal_ct_s
              /\ pt' = pt + 1
              /\ pg' = GoodAfter(pg, RandomValue(rng))
              /\ rng' = RandomNext(rng)
              /\ UNCHANGED <<gpc, i, parts_total, parts_good,
                             run_minutes_today>>
         ELSE /\ AppendCounters(run_sec_accum)
              /\ gpc' = "accum"
              /\ UNCHANGED <<accum_cycle, pt, pg, rng>>
    /\ UNCHANGED <<RepVars, GenConfig, t, ts_list, base_code, state_code,
                   run_sec_accum, motor_current, out_rows>>
\* Lines 119-127: one iteration of the while loop of a running instant, or
\* its exit followed by the three appends.  With ideal_ct_s <= 0 the loop
\* never exits; the model follows it for MaxParts iterations.
CycleStep ==
    /\ gpc = "cycle"
    /\ IF accum_cycle >= ideal_ct_s
         THEN /\ ideal_ct_s > 0 \/ pt < MaxParts
              /\ accum_cycle' = accum_cycle - ideal_ct_s
              /\ pt' = pt + 1
              /\ pg' = GoodAfter(pg, RandomValue(rng))
              /\ rng' = RandomNext(rng)
              /\ UNCHANGED <<gpc, i, parts_total, parts_good,
                             run_minutes_today>>
         ELSE /\ AppendCounters(run_sec_accum)
              /\ gpc' = "accum"
              /\ UNCHANGED <<accum_cycle, pt, pg, rng>>
    /\ UNCHANGED <<RepVars, GenConfig, t, ts_list, base_code, state_code,
                   run_sec_accum, motor_current, out_rows>>

\* Lines 131-140: the motor current of instant i, or the loop's exit.
SensorStep ==
    /\ gpc = "sensor"
    /\ IF i <= Len(ts_list)
         THEN LET s == state_code[i]
              IN  /\ motor_current' =
                        Append(motor_current,
                               MotorMean(s) + GaussValue(rng, MotorSigma(s)))
                  /\ rng' = RandomNext(rng)
                  /\ i' = i + 1
                  /\ UNCHANGED gpc
         ELSE /\ gpc' = "emit"
              /\ i' = 0
              /\ UNCHANGED <<motor_current, rng>>
    /\ UNCHANGED <<RepVars, GenConfig, t, ts_list, base_code, state_code,
                   pt, pg,
                   run_sec_accum, accum_cycle, parts_total, parts_good,
                   run_minutes_today, out_rows>>

\* Lines 164-173: the configuration row (i = 0), then the six rows of
\* instant i, or the loop's exit.
EmitStep ==
    /\ gpc = "emit"
    /\ IF i = 0
         THEN /\ out_rows' = Append(out_rows,
                    Row(ts_list[1], "config", "ideal_ct_s",
                        <<ideal_ct_s, 1>>, <<"s">>))
              /\ i' = 1
              /\ UNCHANGED gpc
         ELSE IF i <= Len(ts_list)
                THEN /\ out_rows' = out_rows \o InstantRows(i)
                     /\ i' = i + 1
                     /\ UNCHANGED gpc
                ELSE /\ gpc' = "done"
                     /\ UNCHANGED <<out_rows, i>>
    /\ UNCHANGED <<RepVars, GenConfig, rng, t, ts_list, base_code,
                   state_code, pt, pg,
                   run_sec_accum, accum_cycle, parts_total, parts_good,
                   run_minutes_today, motor_current>>

GenNext ==
    \/ ParseDate
    \/ BuildTimestamps
    \/ BaseDraw
    \/ PlannedOverride
    \/ FaultOverride
    \/ AccumStep
    \/ CycleStep
    \/ SensorStep
    \/ EmitStep

(***************************************************************************)
(*                     simple_mqtt_replayer.py                             *)
(*                                                                         *)
(* Two threads: the main thread runs main(), and the client's network      *)
(* loop thread (started by loop_start, stopped by loop_stop) sends the     *)
(* messages that publish() queued.  wait_for_publish() blocks the main     *)
(* thread until the network thread has sent the message.                   *)
(*                                                                         *)
(* The cancellation signal is one KeyboardInterrupt, raised in the main    *)
(* thread wherever it is.  A failure of client.connect() ends the program  *)
(* before a session exists and is not modelled.                            *)
(***************************************************************************)

\* args.speed is a float; it is held in units of 1/SpeedDen.
SpeedDen == 2000
\* Line 45: the 0.001 of max(args.speed, 0.001), in units of 1/SpeedDen.
MinSpeed == SpeedDen \div 1000

\* The most client.publish() calls of one session.
MaxPublishes == 7
\* The most rows of the CSV.
MaxRows == 3

\* The ts_iso field of a row: a string that datetime.fromisoformat accepts
\* (wf), denoting an instant in seconds, or one it rejects.
TsFields == {[wf |-> FALSE, secs |-> 0]}
            \cup {[wf |-> TRUE, secs |-> s] : s \in {0, 10, 30}}

RECURSIVE SeqsUpTo(_, _)
SeqsUpTo(S, n) ==
    IF n = 0 THEN {<<>>}
    ELSE LET shorter == SeqsUpTo(S, n - 1)
         IN  shorter \cup {Append(q, x) : q \in shorter, x \in S}

Logs == SeqsUpTo(TsFields, MaxRows)
\* 0, 0.0005, 0.001, 1.0 and 2.0
Speeds == {0, MinSpeed \div 2, MinSpeed, SpeedDen, 2 * SpeedDen}

\* Lines 38-41: t = datetime.fromisoformat(row["ts_iso"]), None when it
\* raises.
FromIsoFormat(f) == IF f.wf THEN <<f.secs>> ELSE None

Max(a, b) == IF a >= b THEN a ELSE b

\* Faulty variant of SleepFor (sleeps abs(dt)): C7 must fail with it.
SleepForAbs(p, c) ==
    IF p # None /\ c # None
      THEN LET dt == IF c[1] >= p[1] THEN c[1] - p[1] ELSE p[1] - c[1]
           IN  IF dt > 0 THEN <<dt * SpeedDen, Max(speed, MinSpeed)>> ELSE None
      ELSE None
\* Lines 42-45: the duration of the time.sleep before the publish, None
\* when there is none.  p is prev, c is t.
SleepFor(p, c) ==
    IF p # None /\ c # None
      THEN LET dt == c[1] - p[1]
           IN  IF dt > 0 THEN <<dt * SpeedDen, Max(speed, MinSpeed)>> ELSE None
      ELSE None

\* The positions of the main thread that lie inside the try block of
\* lines 49-54.
InTry == {"open", "row", "sleep", "publish", "wait"}

RepInit ==
    /\ rpc = "connect"
    /\ csv \in Logs
    /\ loop \in BOOLEAN
    /\ speed \in Speeds
    /\ idx = 0 /\ prev = None /\ cur_t = None /\ sleeping = None
    /\ connects = 0 /\ disconnects = 0 /\ net_thread = FALSE
    /\ issued = <<>> /\ inflight = <<>> /\ delivered = <<>>
    /\ sig = [at |-> "none", issued |-> 0]
    /\ exc = "none" /\ outcome = "none"
    \* the generator does not run
    /\ gpc = "off" /\ date_ok = TRUE
    /\ interval = 0 /\ ideal_ct_s = 0 /\ reject_rate = 0
    /\ planned_windows = <<>> /\ rare_faults = <<>>
    /\ rng = 0 /\ t = 0 /\ ts_list = <<>> /\ base_code = <<>>
    /\ state_code = <<>> /\ i = 0
    /\ pt = 0 /\ pg = 0 /\ run_sec_accum = 0 /\ accum_cycle = 0
    /\ parts_total = <<>> /\ parts_good = <<>> /\ run_minutes_today = <<>>
    /\ motor_current = <<>> /\ out_rows = <<>>

RepConfig == <<csv, loop, speed>>

\* Line 28: client.connect(...).
Connect ==
    /\ rpc = "connect"
    /\ connects' = connects + 1
    /\ rpc' = "loop_start"
    /\ UNCHANGED <<GenVars, RepConfig, idx, prev, cur_t, sleeping,
                   disconnects, net_thread, issued, inflight, delivered,
                   sig, exc, outcome>>

\* Line 29: client.loop_start(); the try block is entered next.
LoopStart ==
    /\ rpc = "loop_start"
    /\ net_thread' = TRUE
    /\ rpc' = "open"
    /\ UNCHANGED <<GenVars, RepConfig, idx, prev, cur_t, sleeping, connects,
                   disconnects, issued, inflight, delivered, sig, exc,
                   outcome>>

\* Faulty variant of OpenPass (a later pass starts at the second row): C5
\* must fail with it.
OpenPassSkipFirst ==
    /\ rpc = "open"
    /\ idx' = IF issued = <<>> THEN 0 ELSE 1
    /\ prev' = None
    /\ rpc' = "row"
    /\ UNCHANGED <<GenVars, RepConfig, cur_t, sleeping, connects,
                   disconnects, net_thread, issued, inflight, delivered,
                   sig, exc, outcome>>
\* Lines 31-34: publish_once() is called: the file is opened, a new reader
\* starts at the first row, prev = None.
OpenPass ==
    /\ rpc = "open"
    /\ idx' = 0
    /\ prev' = None
    /\ rpc' = "row"
    /\ UNCHANGED <<GenVars, RepConfig, cur_t, sleeping, connects,
                   disconnects, net_thread, issued, inflight, delivered,
                   sig, exc, outcome>>

\* Faulty variant of NextRow (a row whose timestamp does not parse is
\* skipped): C10 must fail with it.
NextRowSkipBad ==
    /\ rpc = "row"
    /\ idx < Len(csv)
    /\ idx' = idx + 1
    /\ LET c == FromIsoFormat(csv[idx + 1])
           d == SleepFor(prev, c)
       IN  /\ cur_t' = c
           /\ sleeping' = d
           /\ rpc' = IF c = None THEN "row"
                     ELSE IF d = None THEN "publish" ELSE "sleep"
    /\ UNCHANGED <<GenVars, RepConfig, prev, connects, disconnects,
                   net_thread, issued, inflight, delivered, sig, exc,
                   outcome>>
\* Lines 35-45: the reader yields the next row; its timestamp is parsed and
\* the main thread either enters time.sleep or goes on to the publish.
NextRow ==
    /\ rpc = "row"
    /\ idx < Len(csv)
    /\ idx' = idx + 1
    /\ LET c == FromIsoFormat(csv[idx + 1])
           d == SleepFor(prev, c)
       IN  /\ cur_t' = c
           /\ sleeping' = d
           /\ rpc' = IF d = None THEN "publish" ELSE "sleep"
    /\ UNCHANGED <<GenVars, RepConfig, prev, connects, disconnects,
                   net_thread, issued, inflight, delivered, sig, exc,
                   outcome>>

\* Line 45: time.sleep returns.
SleepDone ==
    /\ rpc = "sleep"
    /\ rpc' = "publish"
    /\ UNCHANGED <<GenVars, RepConfig, idx, prev, cur_t, sleeping, connects,
                   disconnects, net_thread, issued, inflight, delivered,
                   sig, exc, outcome>>

\* Faulty variant of Publish (no wait_for_publish()): C6 must fail with it.
PublishNoWait ==
    /\ rpc = "publish"
    /\ Len(issued) < MaxPublishes
    /\ prev' = cur_t
    /\ issued' = Append(issued, [row |-> idx, slept |-> sleeping])
    /\ inflight' = Append(inflight, idx)
    /\ sleeping' = None
    /\ rpc' = "row"
    /\ UNCHANGED <<GenVars, RepConfig, idx, cur_t, connects, disconnects,
                   net_thread, delivered, sig, exc, outcome>>
\* Faulty variant of Publish (prev is kept when t is None): C20 must fail
\* with it.
PublishKeepPrev ==
    /\ rpc = "publish"
    /\ Len(issued) < MaxPublishes
    /\ prev' = IF cur_t = None THEN prev ELSE cur_t
    /\ issued' = Append(issued, [row |-> idx, slept |-> sleeping])
    /\ inflight' = Append(inflight, idx)
    /\ sleeping' = None
    /\ rpc' = "wait"
    /\ UNCHANGED <<GenVars, RepConfig, idx, cur_t, connects, disconnects,
                   net_thread, delivered, sig, exc, outcome>>
\* Lines 46-47: prev = t; client.publish(...) hands the message to the
\* client, and the main thread enters wait_for_publish().
Publish ==
    /\ rpc = "publish"
    /\ Len(issued) < MaxPublishes
    /\ prev' = cur_t
    /\ issued' = Append(issued, [row |-> idx, slept |-> sleeping])
    /\ inflight' = Append(inflight, idx)
    /\ sleeping' = None
    /\ rpc' = "wait"
    /\ UNCHANGED <<GenVars, RepConfig, idx, cur_t, connects, disconnects,
                   net_thread, delivered, sig, exc, outcome>>

\* The network thread sends the oldest queued message.
NetDeliver ==
    /\ net_thread
    /\ inflight # <<>>
    /\ delivered' = Append(delivered, Head(inflight))
    /\ inflight' = Tail(inflight)
    /\ UNCHANGED <<GenVars, RepConfig, rpc, idx, prev, cur_t, sleeping,
                   connects, disconnects, net_thread, issued, sig, exc,
                   outcome>>

\* Line 47: wait_for_publish() returns once the message has been sent.
WaitDone ==
    /\ rpc = "wait"
    /\ inflight = <<>>
    /\ rpc' = "row"
    /\ UNCHANGED <<GenVars, RepConfig, idx, prev, cur_t, sleeping, connects,
                   disconnects, net_thread, issued, inflight, delivered,
                   sig, exc, outcome>>

\* Line 47: the publish fails (the message is dropped) and
\* wait_for_publish() raises; no except clause of lines 55-56 matches, the
\* finally block runs with the exception pending.
PublishFail ==
    /\ rpc = "wait"
    /\ inflight # <<>>
    /\ inflight' = <<>>
    /\ exc' = "PublishError"
    /\ rpc' = "loop_stop"
    /\ UNCHANGED <<GenVars, RepConfig, idx, prev, cur_t, sleeping, connects,
                   disconnects, net_thread, issued, delivered, sig, outcome>>

\* Faulty variant of PassDone (publish_once() is called again whatever
\* args.loop is): C17 must fail with it.
PassDoneAlwaysLoop ==
    /\ rpc = "row"
    /\ idx = Len(csv)
    /\ rpc' = "open"
    /\ UNCHANGED <<GenVars, RepConfig, idx, prev, cur_t, sleeping, connects,
                   disconnects, net_thread, issued, inflight, delivered,
                   sig, exc, outcome>>
\* Lines 35 and 50-54: the reader is exhausted, publish_once() returns; with
\* --loop it is called again, otherwise the try block ends.
PassDone ==
    /\ rpc = "row"
    /\ idx = Len(csv)
    /\ rpc' = IF loop THEN "open" ELSE "loop_stop"
    /\ UNCHANGED <<GenVars, RepConfig, idx, prev, cur_t, sleeping, connects,
                   disconnects, net_thread, issued, inflight, delivered,
                   sig, exc, outcome>>

\* Line 58: client.loop_stop().
LoopStop ==
    /\ rpc = "loop_stop"
    /\ net_thread' = FALSE
    /\ rpc' = "disconnect"
    /\ UNCHANGED <<GenVars, RepConfig, idx, prev, cur_t, sleeping, connects,
                   disconnects, issued, inflight, delivered, sig, exc,
                   outcome>>

\* How main() ends after the finally block: a pending exception is
\* re-raised, a caught KeyboardInterrupt is not an error.
OutcomeAfterFinally ==
    IF exc # "none" THEN "error"
    ELSE IF sig.at \in InTry THEN "cancelled" ELSE "completed"

\* Line 59: client.disconnect(); main() ends.
Disconnect ==
    /\ rpc = "disconnect"
    /\ disconnects' = disconnects + 1
    /\ rpc' = "done"
    /\ outcome' = OutcomeAfterFinally
    /\ UNCHANGED <<GenVars, RepConfig, idx, prev, cur_t, sleeping, connects,
                   net_thread, issued, inflight, delivered, sig, exc>>

\* Faulty variant of Signal (no except clause): C8 must fail with it.
SignalUncaught ==
    /\ sig.at = "none"
    /\ rpc \notin {"done", "off"}
    /\ sig' = [at |-> rpc, issued |-> Len(issued)]
    /\ rpc' = "done"
    /\ outcome' = "interrupted"
    /\ UNCHANGED <<GenVars, RepConfig, idx, prev, cur_t, sleeping, connects,
                   disconnects, net_thread, issued, inflight, delivered,
                   exc>>
\* Lines 49-59: KeyboardInterrupt is raised in the main thread.  Inside the
\* try block it is caught (except KeyboardInterrupt: pass) and the finally
\* block runs; anywhere else (lines 20-29 before the try, lines 58-59 in the
\* finally block itself) nothing catches it and main() ends there.
Signal ==
    /\ sig.at = "none"
    /\ rpc \notin {"done", "off"}
    /\ sig' = [at |-> rpc, issued |-> Len(issued)]
    /\ IF rpc \in InTry
         THEN /\ rpc' = "loop_stop"
              /\ UNCHANGED outcome
         ELSE /\ rpc' = "done"
              /\ outcome' = "interrupted"
    /\ UNCHANGED <<GenVars, RepConfig, idx, prev, cur_t, sleeping, connects,
                   disconnects, net_thread, issued, inflight, delivered,
                   exc>>

RepNext ==
    \/ Connect
    \/ LoopStart
    \/ OpenPass
    \/ NextRow
    \/ SleepDone
    \/ Publish
    \/ NetDeliver
    \/ WaitDone
    \/ PublishFail
    \/ PassDone
    \/ LoopStop
    \/ Disconnect
    \/ Signal

GenSpec == GenInit /\ [][GenNext]_vars

ArgsSpec == ArgsInit /\ [][GenNext]_vars

(***************************************************************************)
(* The counter loop of lines 110-127 on its own.  It is a fold over the    *)
(* list running with the accumulators pt, pg, run_sec_accum, accum_cycle   *)
(* starting at zero; of the timeline it uses only the length n.  RunInit   *)
(* is main() at line 110 with a state list of at most MaxLead samples that *)
(* are not RUN followed by MaxRun samples that are, at the default         *)
(* sampling interval of 10 s and the default cycle time of 12 s, and at    *)
(* other short intervals and cycle times (interval above and below the     *)
(* cycle time).                                                            *)
(***************************************************************************)
MaxRun == 120
MaxLead == 1

RunIntervals == {10, 30}
RunCycleTimes == {7, 12, 25}
RunRejectRates == {0, 50}

\* The state lists: lead samples of state s (not RUN), then MaxRun of RUN.
RunStateLists ==
    { [k \in 1..(lead + MaxRun) |-> IF k <= lead THEN s ELSE 2] :
        lead \in 0..MaxLead, s \in {0, 3, 4} }

RunInit ==
    /\ gpc = "accum"
    /\ date_ok = TRUE
    /\ interval \in RunIntervals
    /\ ideal_ct_s \in RunCycleTimes
    /\ reject_rate \in RunRejectRates
    /\ planned_windows = << <<13*60, 13*60+30>>, <<20*60, 20*60+15>> >>
    /\ rare_faults = << <<10*60+15, 3>>, <<19*60+40, 4>> >>
    /\ rng \in RngStates
    /\ state_code \in RunStateLists
    /\ base_code = state_code
    /\ ts_list = [k \in 1..Len(state_code) |-> T0 + (k - 1) * interval]
    /\ t = T0 + Len(state_code) * interval
    /\ i = 1
    /\ pt = 0 /\ pg = 0 /\ run_sec_accum = 0 /\ accum_cycle = 0
    /\ parts_total = <<>> /\ parts_good = <<>> /\ run_minutes_today = <<>>
    /\ motor_current = <<>>
    /\ out_rows = <<>>
    \* the replayer does not run
    /\ rpc = "off"
    /\ csv = <<>> /\ loop = FALSE /\ speed = 0
    /\ idx = 0 /\ prev = None /\ cur_t = None /\ sleeping = None
    /\ connects = 0 /\ disconnects = 0 /\ net_thread = FALSE
    /\ issued = <<>> /\ inflight = <<>> /\ delivered = <<>>
    /\ sig = [at |-> "none", issued |-> 0]
    /\ exc = "none" /\ outcome = "none"

RunNext ==
    \/ AccumStep
    \/ CycleStep

RunSpec == RunInit /\ [][RunNext]_vars

ReplaySpec == RepInit /\ [][RepNext]_vars

\* The steps of the main thread: main() runs on whenever it is not blocked
\* in wait_for_publish().
MainStep ==
    \/ Connect
    \/ LoopStart
    \/ OpenPass
    \/ NextRow
    \/ SleepDone
    \/ Publish
    \/ WaitDone
    \/ PassDone
    \/ LoopStop
    \/ Disconnect

\* The replayer with its scheduling: the main thread keeps running, and the
\* network thread started by loop_start() keeps sending what is queued.
\* The signal and the failure of a publish are events of the environment
\* and need not happen.
ReplayFairSpec ==
    /\ RepInit
    /\ [][RepNext]_vars
    /\ WF_vars(MainStep)
    /\ WF_vars(NetDeliver)

(***************************************************************************)
(*                    Properties of make_files.py                          *)
(***************************************************************************)

\* The minute of day of instant k.
MinuteAt(k) == MinuteOfDay(ts_list[k])

\* The window conditions as the specification words them: a fault window
\* (start, duration) covers start <= mm < start + duration, a planned
\* window [start_minute, end_minute) covers start_minute <= mm < end_minute.
InFaultWindow(mm) ==
    \E w \in {rare_faults[k] : k \in 1..Len(rare_faults)} :
        w[1] <= mm /\ mm < w[1] + w[2]
InPlannedWindow(mm) ==
    \E w \in {planned_windows[k] : k \in 1..Len(planned_windows)} :
        w[1] <= mm /\ mm < w[2]

\* Both override loops have run: state_code is final.
StatesFinal == gpc \in {"accum", "cycle", "sensor", "emit", "done"}

\* C1: at every instant parts_total >= parts_good >= 0, and neither counter
\* is smaller at an instant than at the instant before it.
C1_CountersOrderedMonotone ==
    /\ Len(parts_good) = Len(parts_total)
    /\ \A k \in 1..Len(parts_total) :
          parts_total[k] >= parts_good[k] /\ parts_good[k] >= 0
    /\ \A k \in 1..(Len(parts_total) - 1) :
          /\ parts_total[k + 1] >= parts_total[k]
          /\ parts_good[k + 1] >= parts_good[k]

\* A finished day in which parts were made, some good and some rejected,
\* and some instant completed several parts at once.
C1_Witness ==
    /\ gpc = "done"
    /\ Len(parts_total) >= 3
    /\ parts_total[Len(parts_total)] > parts_good[Len(parts_good)]
    /\ parts_good[Len(parts_good)] > 0
    /\ \E k \in 1..(Len(parts_total) - 1) :
          parts_total[k + 1] > parts_total[k] + 1

\* C2: once the override loops have run, an instant is FAULT exactly when
\* its minute of day lies in [start, start + duration) of some fault
\* window: every instant inside a window is FAULT whatever the base draw
\* and also inside a planned window, and the instant at start + duration
\* (inside no other fault window) is not FAULT.
C2_FaultWindowForcesFault ==
    StatesFinal =>
        \A k \in 1..Len(ts_list) :
            (state_code[k] = 4) <=> InFaultWindow(MinuteAt(k))

\* A finished day with an instant that drew RUN or IDLE, lies in a planned
\* window and in a fault window, and is FAULT; and with an instant on the
\* minute that ends a fault window, which is not FAULT.
C2_Witness ==
    /\ gpc = "done"
    /\ \E k \in 1..Len(ts_list) :
          /\ base_code[k] \in {2, 3}
          /\ InPlannedWindow(MinuteAt(k))
          /\ InFaultWindow(MinuteAt(k))
          /\ state_code[k] = 4
    /\ \E k \in 1..Len(ts_list) :
          /\ \E f \in 1..Len(rare_faults) :
                MinuteAt(k) = rare_faults[f][1] + rare_faults[f][2]
          /\ state_code[k] # 4

\* C3: once the override loops have run, every instant whose minute of day
\* lies in a planned window and in no fault window is IDLE.
C3_PlannedWindowForcesIdle ==
    StatesFinal =>
        \A k \in 1..Len(ts_list) :
            (InPlannedWindow(MinuteAt(k)) /\ ~InFaultWindow(MinuteAt(k)))
                => state_code[k] = 3

\* A finished day with an instant that drew RUN, lies in a planned window
\* and in no fault window, and is IDLE.
C3_Witness ==
    /\ gpc = "done"
    /\ \E k \in 1..Len(ts_list) :
          /\ base_code[k] = 2
          /\ InPlannedWindow(MinuteAt(k))
          /\ ~InFaultWindow(MinuteAt(k))
          /\ state_code[k] = 3

\* run_minutes_today before instant k (0.0 before the first).
RunMinutesBefore(k) == IF k = 1 THEN <<0, 60>> ELSE run_minutes_today[k - 1]

\* C4: run_minutes_today never decreases from one instant to the next; it
\* increases only at an instant that is running (RUN), and at a STOPPED,
\* IDLE or FAULT instant it equals the value of the instant before.
C4_RunMinutesOnlyWhileRunning ==
    \A k \in 1..Len(run_minutes_today) :
        /\ RatLeq(RunMinutesBefore(k), run_minutes_today[k])
        /\ RatLt(RunMinutesBefore(k), run_minutes_today[k])
              => (running[k] = 1 /\ state_code[k] = 2)
        /\ state_code[k] \in {0, 3, 4}
              => RatEq(RunMinutesBefore(k), run_minutes_today[k])

\* A finished day in which run_minutes_today rose at a RUN instant and then
\* stayed, above zero, at a STOPPED, IDLE or FAULT instant.
C4_Witness ==
    /\ gpc = "done"
    /\ \E k \in 2..Len(run_minutes_today) :
          /\ state_code[k - 1] = 2
          /\ RatLt(RunMinutesBefore(k - 1), run_minutes_today[k - 1])
          /\ state_code[k] \in {0, 3, 4}
          /\ RatEq(run_minutes_today[k - 1], run_minutes_today[k])
          /\ RatLt(<<0, 60>>, run_minutes_today[k])

(***************************************************************************)
(*                Properties of simple_mqtt_replayer.py                    *)
(***************************************************************************)

\* The publish calls follow the log: the first is row 1, and each later one
\* is the row after the one before it, or row 1 after the last row.
IssuedInInputOrder ==
    \A k \in 1..Len(issued) :
        issued[k].row = IF k = 1 \/ issued[k - 1].row = Len(csv)
                          THEN 1
                          ELSE issued[k - 1].row + 1

\* C5: in looping replay of a log of n events the k-th delivery is event
\* ((k - 1) mod n) + 1.
C5_LoopDeliversCyclically ==
    loop =>
        \A k \in 1..Len(delivered) :
            delivered[k] = ((k - 1) % Len(csv)) + 1

\* A looping replay of a 3-event log, cancelled after 7 deliveries, that
\* delivered 1,2,3,1,2,3,1.
C5_Witness ==
    /\ loop
    /\ Len(csv) = 3
    /\ rpc = "done"
    /\ outcome = "cancelled"
    /\ delivered = <<1, 2, 3, 1, 2, 3, 1>>

\* C6: at most one publish is in flight; while the main thread is between
\* two publishes every publish issued so far has been confirmed; the
\* deliveries are the publishes, in the order issued, and the publishes are
\* in the order of the log.
C6_OnePublishInFlight ==
    /\ Len(inflight) <= 1
    /\ Len(issued) - Len(delivered) <= 1
    /\ rpc \in {"open", "row", "sleep", "publish"}
          => (inflight = <<>> /\ Len(delivered) = Len(issued))
    /\ Len(delivered) <= Len(issued)
    /\ \A k \in 1..Len(delivered) : delivered[k] = issued[k].row
    /\ IssuedInInputOrder

\* The main thread waits for the confirmation of a publish that is in
\* flight, after two earlier publishes were confirmed.
C6_Witness ==
    /\ rpc = "wait"
    /\ Len(inflight) = 1
    /\ Len(delivered) >= 2
    /\ Len(issued) = Len(delivered) + 1

\* The publish calls whose row and the row before it in the log both have
\* well-formed timestamps.
TimedPublishes ==
    {k \in 1..Len(issued) :
        /\ issued[k].row >= 2
        /\ csv[issued[k].row - 1].wf
        /\ csv[issued[k].row].wf}
DeltaOf(k) == csv[issued[k].row].secs - csv[issued[k].row - 1].secs

\* The suspensions C7 rules out: before the first event of a pass and
\* before an event with delta <= 0.
NoSleepCases ==
    /\ \A k \in 1..Len(issued) : issued[k].row = 1 => issued[k].slept = None
    /\ \A k \in TimedPublishes : DeltaOf(k) <= 0 => issued[k].slept = None

\* C7 as stated: with a speed factor s > 0, between two consecutive events
\* with well-formed timestamps t1 < t2 the engine suspends for exactly
\* (t2 - t1) / s; it does not suspend before the first event of a pass nor
\* before an event with delta <= 0.
C7_SleepIsDeltaOverSpeed ==
    speed > 0 =>
        /\ \A k \in TimedPublishes :
              DeltaOf(k) > 0 =>
                  /\ issued[k].slept # None
                  /\ RatEq(issued[k].slept, <<DeltaOf(k) * SpeedDen, speed>>)
        /\ NoSleepCases

\* C7, amended: with a speed factor s > 0 the suspension between them is
\* (t2 - t1) / max(s, 0.001).
C7_SleepIsDeltaOverClampedSpeed ==
    speed > 0 =>
        /\ \A k \in TimedPublishes :
              DeltaOf(k) > 0 =>
                  /\ issued[k].slept # None
                  /\ RatEq(issued[k].slept,
                           <<DeltaOf(k) * SpeedDen,
                             IF speed >= MinSpeed THEN speed ELSE MinSpeed>>)
        /\ NoSleepCases

\* A looping replay at a speed factor between 0 and 0.001 that suspended
\* before an event, did not suspend before an event with delta <= 0, and
\* has started a second pass.
C7_Witness ==
    /\ speed > 0 /\ speed < MinSpeed
    /\ \E k \in TimedPublishes : DeltaOf(k) > 0 /\ issued[k].slept # None
    /\ \E k \in TimedPublishes : DeltaOf(k) < 0 /\ issued[k].slept = None
    /\ \E k \in 2..Len(issued) : issued[k].row = 1

\* C8: after the signal arrived while the engine was suspended or waiting
\* for a confirmation, no further publish is issued, the engine is no
\* longer playing, no error is pending, and when main() has ended it ended
\* as cancelled, with the network loop stopped and the connection
\* disconnected.
C8_CancelEndsPlayingCleanly ==
    sig.at \in {"sleep", "wait"} =>
        /\ Len(issued) = sig.issued
        /\ rpc \in {"loop_stop", "disconnect", "done"}
        /\ exc = "none"
        /\ rpc = "done" =>
              /\ outcome = "cancelled"
              /\ disconnects = 1
              /\ ~net_thread

\* A looping replay cancelled while waiting for the confirmation of its
\* fourth publish, ended: the interrupted event was not delivered.
C8_Witness ==
    /\ loop
    /\ sig.at = "wait"
    /\ sig.issued = 4
    /\ rpc = "done"
    /\ outcome = "cancelled"
    /\ disconnects = 1
    /\ Len(delivered) = 3

\* C9 as stated: the connection is acquired once; when main() has ended
\* after acquiring it, it has been released exactly once; nothing is
\* published before the acquisition or after the release.
C9_AcquiredOnceReleasedOnce ==
    /\ connects <= 1
    /\ disconnects <= connects
    /\ issued # <<>> => connects = 1
    /\ disconnects = 1 => rpc = "done"
    /\ (rpc = "done" /\ connects = 1) => disconnects = 1

\* C10: an event with a malformed timestamp is published without a
\* suspension, and the pass goes on: the publishes follow the log without
\* a gap, and a replay that completed delivered every event once, in order.
C10_MalformedDeliveredAtOnce ==
    /\ \A k \in 1..Len(issued) :
          ~csv[issued[k].row].wf => issued[k].slept = None
    /\ IssuedInInputOrder
    /\ rpc \in {"sleep", "publish"} => (idx >= 1 /\ idx <= Len(csv))
    /\ outcome = "completed" => delivered = [k \in 1..Len(csv) |-> k]

\* A completed replay of a 3-event log whose second timestamp is malformed
\* and whose first and third are 30 seconds apart.
C10_Witness ==
    /\ outcome = "completed"
    /\ Len(csv) = 3
    /\ csv[1].wf /\ ~csv[2].wf /\ csv[3].wf
    /\ csv[3].secs - csv[1].secs = 30
    /\ delivered = <<1, 2, 3>>
    /\ \A k \in 1..3 : issued[k].slept = None

\* C11 as stated: when a publish failed (and nothing cancelled the
\* session), the failure is surfaced, the failed event is not published
\* again, and the pass was not aborted: the events after the failed one
\* were still published, in order, up to the last event of the log.
C11_PublishFailureDoesNotAbortPass ==
    (exc = "PublishError" /\ sig.at = "none" /\ rpc = "done") =>
        /\ outcome = "error"
        /\ IssuedInInputOrder
        /\ issued[Len(issued)].row = Len(csv)

(***************************************************************************)
(*        Properties of make_files.py on any accepted command line         *)
(***************************************************************************)

\* The configurations that the specification calls invalid.
InvalidConfig ==
    \/ ~date_ok
    \/ interval <= 0
    \/ reject_rate < 0 \/ reject_rate > 100

\* C12 as stated: with an invalid date, a non-positive interval or a reject
\* probability outside [0,1], generation ends in an error before any event
\* is produced: no row is ever written and the run never ends normally.
C12_InvalidConfigRejected ==
    InvalidConfig => (out_rows = <<>> /\ gpc # "done")

\* The timestamp loop has ended.
TimelineBuilt ==
    gpc \in {"base", "planned", "fault", "accum", "cycle", "sensor", "emit",
             "done"}

\* The instants start at 00:00:00 and are evenly spaced by interval.
EvenlySpacedFromT0 ==
    /\ ts_list # <<>>
    /\ ts_list[1] = T0
    /\ \A k \in 1..(Len(ts_list) - 1) : ts_list[k + 1] - ts_list[k] = interval

\* C13 as stated: the timeline has floor(86400 / interval) instants, evenly
\* spaced from 00:00:00, the last being the latest such instant strictly
\* before the next day's 00:00:00.
C13_TimelineFillsDay ==
    TimelineBuilt =>
        /\ Len(ts_list) = (24 * 3600) \div interval
        /\ EvenlySpacedFromT0
        /\ ts_list[Len(ts_list)] < 24 * 3600
        /\ ts_list[Len(ts_list)] + interval >= 24 * 3600

\* C13, amended: the timeline has floor(86390 / interval) + 1 instants,
\* evenly spaced from 00:00:00, the last being the latest such instant that
\* is not after 23:59:50.
C13_TimelineUpToT1 ==
    TimelineBuilt =>
        /\ interval > 0
        /\ Len(ts_list) = (T1 \div interval) + 1
        /\ EvenlySpacedFromT0
        /\ ts_list[Len(ts_list)] <= T1
        /\ ts_list[Len(ts_list)] + interval > T1

\* A finished run with interval 43197: two instants, although a third
\* multiple of the interval (23:59:54) lies before midnight.
C13_Witness ==
    /\ gpc = "done"
    /\ interval = 43197
    /\ ts_list = <<0, 43197>>
    /\ ts_list[2] + interval < 24 * 3600

(***************************************************************************)
(*             Properties of the counter loop of make_files.py             *)
(***************************************************************************)

MetricOrder ==
    <<"state_code", "running", "parts_total", "parts_good",
      "run_minutes_today", "motor_current_a">>

\* C15: for a timeline of n instants exactly 6n + 1 rows are written: first
\* the one configuration row (ideal_ct_s) with the first instant's
\* timestamp, then for each instant in order six rows with that instant's
\* timestamp, in the order state_code, running, parts_total, parts_good,
\* run_minutes_today, motor_current_a; timestamps never decrease.
C15_ConfigThenSixPerInstant ==
    /\ \A k \in 1..(Len(out_rows) - 1) : out_rows[k].ts <= out_rows[k + 1].ts
    /\ (gpc = "emit" /\ i >= 1) => Len(out_rows) = 6 * (i - 1) + 1
    /\ gpc = "done" =>
          LET n == Len(ts_list)
          IN  /\ Len(out_rows) = 6 * n + 1
              /\ out_rows[1].object = "config"
              /\ out_rows[1].metric = "ideal_ct_s"
              /\ out_rows[1].value = <<ideal_ct_s, 1>>
              /\ out_rows[1].ts = ts_list[1]
              /\ \A k \in 2..Len(out_rows) : out_rows[k].object # "config"
              /\ \A j \in 1..n : \A q \in 1..6 :
                    /\ out_rows[1 + 6 * (j - 1) + q].metric = MetricOrder[q]
                    /\ out_rows[1 + 6 * (j - 1) + q].ts = ts_list[j]

\* A finished run over 8 instants: 49 rows.
C15_Witness ==
    /\ gpc = "done"
    /\ Len(ts_list) = 8
    /\ Len(out_rows) = 49
    /\ out_rows[49].metric = "motor_current_a"
    /\ out_rows[49].ts = ts_list[8]

(***************************************************************************)
(*           Termination of simple_mqtt_replayer.py                        *)
(***************************************************************************)

\* C17: without --loop, a session that is neither cancelled nor hit by a
\* publish failure eventually ends completed; a session that ended with
\* neither ran without --loop, delivered every event of the log exactly
\* once and in order, and released the connection; an ended session never
\* runs again; with --loop a session never ends completed: it ends only
\* after a cancellation signal or a failure.
C17_EndsCompletedUnlessLooping ==
    /\ [](~loop => <>(outcome = "completed" \/ sig.at # "none"
                        \/ exc # "none"))
    /\ []((rpc = "done" /\ sig.at = "none" /\ exc = "none") =>
             /\ ~loop
             /\ outcome = "completed"
             /\ delivered = [k \in 1..Len(csv) |-> k]
             /\ inflight = <<>>
             /\ connects = 1 /\ disconnects = 1
             /\ ~net_thread)
    /\ [](loop => outcome # "completed")
    /\ [][rpc = "done" => rpc' = "done"]_vars

\* A session without --loop over a log of three well-formed events that
\* ended completed, uncancelled, every event delivered once.
C17_Witness ==
    /\ ~loop
    /\ Len(csv) = 3
    /\ \A k \in 1..3 : csv[k].wf
    /\ csv[3].secs > csv[1].secs
    /\ sig.at = "none" /\ exc = "none"
    /\ outcome = "completed"
    /\ delivered = <<1, 2, 3>>
    /\ disconnects = 1

\* C18 as stated: for every configuration with interval > 0, ideal cycle
\* time >= 0 and reject probability in [0,1], the part-completion loop of a
\* RUN instant terminates: every pass through its body strictly lowers
\* accum_cycle, the quantity that its exit test compares with ideal_ct_s.
C18_CycleLoopTerminates ==
    [][(/\ interval > 0 /\ ideal_ct_s >= 0
        /\ reject_rate >= 0 /\ reject_rate <= 100
        /\ gpc = "cycle" /\ gpc' = "cycle")
       => accum_cycle' < accum_cycle]_vars

\* The seconds of RUN among the first k instants.
RunSecondsUpTo(k) ==
    interval * Cardinality({q \in 1..k : state_code[q] = 2})

\* C19: outside the part-completion loop the cycle accumulator is in
\* [0, ct) and parts_total * ct + cycle accumulator = running-time
\* accumulator (inside the loop the equation holds as well); the partial
\* cycle survives the instants that are not RUN, so for any state sequence
\* parts_total[k] = floor(RUN seconds up to k / ct).
C19_PartialCycleCarried ==
    /\ pt * ideal_ct_s + accum_cycle = run_sec_accum
    /\ accum_cycle >= 0
    /\ gpc # "cycle" => accum_cycle < ideal_ct_s
    /\ \A k \in 1..Len(parts_total) :
          /\ parts_total[k] = RunSecondsUpTo(k) \div ideal_ct_s
          /\ run_minutes_today[k] = <<RunSecondsUpTo(k), 60>>

\* A RUN instant left a partial cycle, the next instant was not RUN, and at
\* the RUN instant after it the carried partial cycle completed one part
\* more than the interval alone would have.
C19_Witness ==
    \E k \in 2..(Len(parts_total) - 1) :
        /\ state_code[k - 1] = 2 /\ state_code[k] # 2 /\ state_code[k + 1] = 2
        /\ parts_total[k - 1] * ideal_ct_s < RunSecondsUpTo(k - 1)
        /\ parts_total[k] = parts_total[k - 1]
        /\ parts_total[k + 1] > parts_total[k] + (interval \div ideal_ct_s)

(***************************************************************************)
(*        Malformed timestamps in simple_mqtt_replayer.py                  *)
(***************************************************************************)

\* The suspension of line 45 for a delta of d seconds.
SleepOfDelta(d) == <<d * SpeedDen, Max(speed, MinSpeed)>>

\* C20: an event with a malformed timestamp clears the remembered previous
\* timestamp; the event right after it in the same pass is published
\* without a suspension whatever its timestamp is; the event after that one
\* is timed relative to that following event's timestamp alone.
C20_MalformedClearsPrev ==
    /\ (rpc \in {"wait", "row"} /\ idx >= 1 /\ ~csv[idx].wf) => prev = None
    /\ \A k \in 1..Len(issued) :
          LET r == issued[k].row
          IN  /\ (r >= 2 /\ ~csv[r - 1].wf) => issued[k].slept = None
              /\ (r >= 3 /\ ~csv[r - 2].wf /\ csv[r - 1].wf /\ csv[r].wf) =>
                    LET d == csv[r].secs - csv[r - 1].secs
                    IN  IF d > 0
                          THEN /\ issued[k].slept # None
                               /\ RatEq(issued[k].slept, SleepOfDelta(d))
                          ELSE issued[k].slept = None

\* A completed replay of a log whose first timestamp is malformed and whose
\* second and third are 00:00:10 and 00:00:30: the second event was not
\* waited for, the third was, for the 20 seconds between them.
C20_Witness ==
    /\ outcome = "completed"
    /\ Len(csv) = 3
    /\ ~csv[1].wf
    /\ csv[2].wf /\ csv[2].secs = 10
    /\ csv[3].wf /\ csv[3].secs = 30
    /\ issued[2].slept = None
    /\ issued[3].slept # None
    /\ RatEq(issued[3].slept, SleepOfDelta(20))

====
